---- MODULE Spec2Model ----
(***************************************************************************)
(* Model of app_main (src/main/main.c): the TensorFlow Lite Micro smoke    *)
(* test.  One action per statement group of app_main; the external         *)
(* collaborators (malloc, AllocateTensors, input/output, Invoke) return    *)
(* nondeterministic results.                                               *)
(*                                                                         *)
(* Floats: a binary32 value is a record [k, v].  k = "fin" is a finite     *)
(* value v * 2^-27 (2^-27 is the unit in the last place of 0.1f), "nan",   *)
(* "pinf" and "ninf" are NaN and the infinities.  Only finite values that  *)
(* are multiples of 2^-27 are represented.                                 *)
(***************************************************************************)
EXTENDS Integers, Sequences, FiniteSets

VARIABLES pc, tflm, blob_version, model_version, tensor_arena, interp,
          allocate_status, input, output, i, invoke_status, in_buf, out_buf,
          out_src, trial_state, eval, log, trace, beats

vars == <<pc, tflm, blob_version, model_version, tensor_arena, interp,
          allocate_status, input, output, i, invoke_status, in_buf, out_buf,
          out_src, trial_state, eval, log, trace, beats>>

\* ---------------------------------------------------------------- bounds
\* Heartbeat iterations of the final while(1) that are explored.
MaxBeats == 2
\* Largest dims->size of the input and output tensors that is explored.
MaxDims == 2

\* ------------------------------------------------------------- constants
TFLITE_SCHEMA_VERSION == 3
kTfLiteOk == 0
tensor_arena_size == 8 * 1024
num_tests == 4

\* Values the environment may hand back.
Versions == {TFLITE_SCHEMA_VERSION - 1, TFLITE_SCHEMA_VERSION, TFLITE_SCHEMA_VERSION + 2}
Statuses == {kTfLiteOk, 1, 2}
NoVersion == -1
NoStatus == -1

\* ---------------------------------------------------------------- floats
One == 134217728                \* 1.0f  = 2^27 units
TolF == 13421773                \* 0.1f  = 0x3DCCCCCD = 13421773 * 2^-27
Mant == 16777216                \* 2^24: integers below it are exact in binary32

F(n) == [k |-> "fin", v |-> n]
NaN == [k |-> "nan", v |-> 0]
PInf == [k |-> "pinf", v |-> 0]
NInf == [k |-> "ninf", v |-> 0]

Abs(n) == IF n < 0 THEN -n ELSE n

RECURSIVE Ulp(_)
\* spacing of binary32 values around magnitude m (in units of 2^-27)
Ulp(m) == IF m < Mant THEN 1 ELSE 2 * Ulp(m \div 2)

\* round-to-nearest, ties-to-even of the exact value n
RoundF(n) ==
    LET m == Abs(n)
        u == Ulp(m)
        q == m \div u
        r == m % u
        q2 == IF 2 * r > u \/ (2 * r = u /\ q % 2 = 1) THEN q + 1 ELSE q
    IN  IF n < 0 THEN -(q2 * u) ELSE q2 * u

Neg(a) == CASE a.k = "fin" -> F(-a.v)
            [] a.k = "nan" -> NaN
            [] a.k = "pinf" -> NInf
            [] a.k = "ninf" -> PInf

\* IEEE-754 binary32 addition
FAdd(a, b) ==
    CASE a.k = "nan" \/ b.k = "nan" -> NaN
      [] a.k = "fin" /\ b.k = "fin" -> F(RoundF(a.v + b.v))
      [] a.k = "fin" -> b
      [] b.k = "fin" -> a
      [] a.k = b.k -> a
      [] OTHER -> NaN

\* IEEE-754 binary32 subtraction
FSub(a, b) == FAdd(a, Neg(b))

\* IEEE-754 ordered comparison a < b (false when either is NaN)
FLt(a, b) ==
    CASE a.k = "nan" \/ b.k = "nan" -> FALSE
      [] a.k = "fin" /\ b.k = "fin" -> a.v < b.v
      [] a.k = "ninf" -> b.k # "ninf"
      [] b.k = "pinf" -> a.k # "pinf"
      [] OTHER -> FALSE

FGt(a, b) == FLt(b, a)

\* float test_values[] = {1.0f, 5.0f, -2.0f, 10.0f}
test_values == <<F(1 * One), F(5 * One), F(-2 * One), F(10 * One)>>

\* expected = test_values[i] + 1.0f
Expected(x) == FAdd(x, F(One))

\* diff < -0.1f || diff > 0.1f
LargeDiff(diff) == FLt(diff, F(-TolF)) \/ FGt(diff, F(TolF))

\* Contents of freshly malloc'ed memory: indeterminate.
Garbage == {F(0), NaN}

\* Offsets from the "add 1" reference that the engine's output is drawn from.
Offsets == {0, TolF, -TolF, TolF + 64, -(TolF + 64)}

\* What Invoke may leave in output->data.f[0] when the input buffer holds x.
OutputSamples(x) ==
    LET e == Expected(x)
    IN  IF e.k = "fin"
        THEN {F(RoundF(e.v + d)) : d \in Offsets} \cup {NaN, PInf, NInf}
        ELSE {NaN, PInf, NInf}

\* ----------------------------------------------------------------- state
TrialStates == {"PENDING", "INPUT_WRITTEN", "INVOKED", "OK", "INVOKE_FAILED", "EVALUATED"}

NoEval == [done |-> FALSE, input |-> NaN, actual |-> NaN, expected |-> NaN,
           diff |-> NaN, src |-> 0, warned |-> FALSE]

Ev(op, t) == [op |-> op, t |-> t]

Init ==
    /\ pc = "start"
    /\ tflm \in BOOLEAN
    /\ blob_version \in Versions
    /\ model_version = NoVersion
    /\ tensor_arena = "unset"
    /\ interp = FALSE
    /\ allocate_status = NoStatus
    /\ input = "unset"
    /\ output = "unset"
    /\ i = 0
    /\ invoke_status = NoStatus
    /\ in_buf = F(0)
    /\ out_buf = F(0)
    /\ out_src = 0
    /\ trial_state = [t \in 1..num_tests |-> "PENDING"]
    /\ eval = [t \in 1..num_tests |-> NoEval]
    /\ log = <<>>
    /\ trace = <<>>
    /\ beats = 0

\* --------------------------------------------------------------- actions
\* lines 28-30: the three start-up info lines
Start ==
    /\ pc = "start"
    /\ log' = log \o <<"I", "I", "I">>
    /\ pc' = IF tflm THEN "tflm_present" ELSE "tflm_absent"
    /\ UNCHANGED <<tflm, blob_version, model_version, tensor_arena, interp,
                   allocate_status, input, output, i, invoke_status, in_buf,
                   out_buf, out_src, trial_state, eval, trace, beats>>

\* lines 32-36: #if TFLM_AVAILABLE, InitializeTarget()
TflmPresent ==
    /\ pc = "tflm_present"
    /\ log' = Append(log, "I")
    /\ trace' = Append(trace, Ev("InitializeTarget", 0))
    /\ pc' = "get_model"
    /\ UNCHANGED <<tflm, blob_version, model_version, tensor_arena, interp,
                   allocate_status, input, output, i, invoke_status, in_buf,
                   out_buf, out_src, trial_state, eval, beats>>

\* lines 128-133: #else branch, four error lines, then the main loop
TflmAbsent ==
    /\ pc = "tflm_absent"
    /\ log' = log \o <<"E", "E", "E", "E">>
    /\ pc' = "idle"
    /\ UNCHANGED <<tflm, blob_version, model_version, tensor_arena, interp,
                   allocate_status, input, output, i, invoke_status, in_buf,
                   out_buf, out_src, trial_state, eval, trace, beats>>

\* line 39: model = tflite::GetModel(simple_model_tflite)
GetModel ==
    /\ pc = "get_model"
    /\ model_version' = blob_version
    /\ trace' = Append(trace, Ev("GetModel", 0))
    /\ pc' = "version_check"
    /\ UNCHANGED <<tflm, blob_version, tensor_arena, interp, allocate_status,
                   input, output, i, invoke_status, in_buf, out_buf, out_src,
                   trial_state, eval, log, beats>>

\* VersionCheck with the return after the error line left out
VersionCheck_NoReturn ==
    /\ pc = "version_check"
    /\ trace' = Append(trace, Ev("version_check", 0))
    /\ log' = Append(log, IF model_version # TFLITE_SCHEMA_VERSION THEN "E" ELSE "I")
    /\ pc' = "malloc"
    /\ UNCHANGED <<tflm, blob_version, model_version, tensor_arena, interp,
                   allocate_status, input, output, i, invoke_status, in_buf,
                   out_buf, out_src, trial_state, eval, beats>>

\* lines 40-45: schema version check
VersionCheck ==
    /\ pc = "version_check"
    /\ trace' = Append(trace, Ev("version_check", 0))
    /\ IF model_version # TFLITE_SCHEMA_VERSION
       THEN /\ log' = Append(log, "E")
            /\ pc' = "returned"
       ELSE /\ log' = Append(log, "I")
            /\ pc' = "malloc"
    /\ UNCHANGED <<tflm, blob_version, model_version, tensor_arena, interp,
                   allocate_status, input, output, i, invoke_status, in_buf,
                   out_buf, out_src, trial_state, eval, beats>>

\* lines 51-52: tensor_arena = malloc(tensor_arena_size)
Malloc ==
    /\ pc = "malloc"
    /\ \E ok \in BOOLEAN :
         tensor_arena' = IF ok THEN "live" ELSE "null"
    /\ \E g1 \in Garbage, g2 \in Garbage :
         /\ in_buf' = g1
         /\ out_buf' = g2
    /\ trace' = Append(trace, Ev("malloc", tensor_arena_size))
    /\ pc' = "arena_check"
    /\ UNCHANGED <<tflm, blob_version, model_version, interp, allocate_status,
                   input, output, i, invoke_status, out_src, trial_state,
                   eval, log, beats>>

\* ArenaCheck with the return after the error line left out
ArenaCheck_NoReturn ==
    /\ pc = "arena_check"
    /\ log' = Append(log, IF tensor_arena = "null" THEN "E" ELSE "I")
    /\ pc' = "construct"
    /\ UNCHANGED <<tflm, blob_version, model_version, tensor_arena, interp,
                   allocate_status, input, output, i, invoke_status, in_buf,
                   out_buf, out_src, trial_state, eval, trace, beats>>

\* lines 53-57: NULL check of the arena
ArenaCheck ==
    /\ pc = "arena_check"
    /\ IF tensor_arena = "null"
       THEN /\ log' = Append(log, "E")
            /\ pc' = "returned"
       ELSE /\ log' = Append(log, "I")
            /\ pc' = "construct"
    /\ UNCHANGED <<tflm, blob_version, model_version, tensor_arena, interp,
                   allocate_status, input, output, i, invoke_status, in_buf,
                   out_buf, out_src, trial_state, eval, trace, beats>>

\* lines 60-62: static MicroInterpreter over (model, resolver, arena, size)
ConstructInterpreter ==
    /\ pc = "construct"
    /\ interp' = TRUE
    /\ trace' = Append(trace, Ev("ctor", tensor_arena_size))
    /\ pc' = "allocate_tensors"
    /\ UNCHANGED <<tflm, blob_version, model_version, tensor_arena,
                   allocate_status, input, output, i, invoke_status, in_buf,
                   out_buf, out_src, trial_state, eval, log, beats>>

\* line 65: allocate_status = interpreter->AllocateTensors()
AllocateTensors ==
    /\ pc = "allocate_tensors"
    /\ \E st \in Statuses : allocate_status' = st
    /\ trace' = Append(trace, Ev("AllocateTensors", 0))
    /\ pc' = "allocate_check"
    /\ UNCHANGED <<tflm, blob_version, model_version, tensor_arena, interp,
                   input, output, i, invoke_status, in_buf, out_buf, out_src,
                   trial_state, eval, log, beats>>

\* AllocateCheck that calls AllocateTensors again after a failure
AllocateCheck_Retry ==
    /\ pc = "allocate_check"
    /\ IF allocate_status # kTfLiteOk
       THEN /\ log' = Append(log, "E")
            /\ pc' = "allocate_tensors"
       ELSE /\ log' = Append(log, "I")
            /\ pc' = "get_tensors"
    /\ UNCHANGED <<tensor_arena, trace>>
    /\ UNCHANGED <<tflm, blob_version, model_version, interp, allocate_status,
                   input, output, i, invoke_status, in_buf, out_buf, out_src,
                   trial_state, eval, beats>>

\* AllocateCheck that frees the arena on failure but does not return
AllocateCheck_FreeNoReturn ==
    /\ pc = "allocate_check"
    /\ IF allocate_status # kTfLiteOk
       THEN /\ log' = Append(log, "E")
            /\ tensor_arena' = "freed"
            /\ trace' = Append(trace, Ev("free", 0))
       ELSE /\ log' = Append(log, "I")
            /\ UNCHANGED <<tensor_arena, trace>>
    /\ pc' = "get_tensors"
    /\ UNCHANGED <<tflm, blob_version, model_version, interp, allocate_status,
                   input, output, i, invoke_status, in_buf, out_buf, out_src,
                   trial_state, eval, beats>>

\* lines 66-71: status check; on failure log, free the arena, return
AllocateCheck ==
    /\ pc = "allocate_check"
    /\ IF allocate_status # kTfLiteOk
       THEN /\ log' = Append(log, "E")
            /\ tensor_arena' = "freed"
            /\ trace' = Append(trace, Ev("free", 0))
            /\ pc' = "returned"
       ELSE /\ log' = Append(log, "I")
            /\ pc' = "get_tensors"
            /\ UNCHANGED <<tensor_arena, trace>>
    /\ UNCHANGED <<tflm, blob_version, model_version, interp, allocate_status,
                   input, output, i, invoke_status, in_buf, out_buf, out_src,
                   trial_state, eval, beats>>

\* lines 74-75: input = interpreter->input(0); output = interpreter->output(0)
GetTensors ==
    /\ pc = "get_tensors"
    /\ \E a \in {"null", "ok"}, b \in {"null", "ok"} :
         /\ input' = a
         /\ output' = b
    /\ trace' = trace \o <<Ev("input", 0), Ev("output", 0)>>
    /\ pc' = "tensor_check"
    /\ UNCHANGED <<tflm, blob_version, model_version, tensor_arena, interp,
                   allocate_status, i, invoke_status, in_buf, out_buf, out_src,
                   trial_state, eval, log, beats>>

\* TensorCheck that returns on a null descriptor without freeing the arena
TensorCheck_NoFree ==
    /\ pc = "tensor_check"
    /\ IF input = "null" \/ output = "null"
       THEN /\ log' = Append(log, "E")
            /\ pc' = "returned"
       ELSE /\ log' = Append(log, "I")
            /\ pc' = "log_shapes"
    /\ UNCHANGED <<tensor_arena, trace>>
    /\ UNCHANGED <<tflm, blob_version, model_version, interp, allocate_status,
                   input, output, i, invoke_status, in_buf, out_buf, out_src,
                   trial_state, eval, beats>>

\* TensorCheck that tests the input descriptor only
TensorCheck_InputOnly ==
    /\ pc = "tensor_check"
    /\ IF input = "null"
       THEN /\ log' = Append(log, "E")
            /\ tensor_arena' = "freed"
            /\ trace' = Append(trace, Ev("free", 0))
            /\ pc' = "returned"
       ELSE /\ log' = Append(log, "I")
            /\ pc' = "log_shapes"
            /\ UNCHANGED <<tensor_arena, trace>>
    /\ UNCHANGED <<tflm, blob_version, model_version, interp, allocate_status,
                   input, output, i, invoke_status, in_buf, out_buf, out_src,
                   trial_state, eval, beats>>

\* lines 77-83: nullptr check of both descriptors
TensorCheck ==
    /\ pc = "tensor_check"
    /\ IF input = "null" \/ output = "null"
       THEN /\ log' = Append(log, "E")
            /\ tensor_arena' = "freed"
            /\ trace' = Append(trace, Ev("free", 0))
            /\ pc' = "returned"
       ELSE /\ log' = Append(log, "I")
            /\ pc' = "log_shapes"
            /\ UNCHANGED <<tensor_arena, trace>>
    /\ UNCHANGED <<tflm, blob_version, model_version, interp, allocate_status,
                   input, output, i, invoke_status, in_buf, out_buf, out_src,
                   trial_state, eval, beats>>

\* n info lines
InfoLines(n) == [k \in 1..n |-> "I"]

\* lines 84-91: the number of dimensions of the input and of the output is
\* logged, followed by one info line per dimension (the two for loops)
LogShapes ==
    /\ pc = "log_shapes"
    /\ trace' = trace \o <<Ev("deref_input", 0), Ev("deref_output", 0)>>
    /\ \E in_dims \in 0..MaxDims, out_dims \in 0..MaxDims :
         log' = log \o <<"I">> \o InfoLines(in_dims)
                    \o <<"I">> \o InfoLines(out_dims)
    /\ pc' = "loop_init"
    /\ UNCHANGED <<tflm, blob_version, model_version, tensor_arena, interp,
                   allocate_status, input, output, i, invoke_status, in_buf,
                   out_buf, out_src, trial_state, eval, beats>>

\* lines 94-98: test_values, num_tests, "Running inference tests...", i = 0
LoopInit ==
    /\ pc = "loop_init"
    /\ i' = 0
    /\ log' = Append(log, "I")
    /\ pc' = "loop_test"
    /\ UNCHANGED <<tflm, blob_version, model_version, tensor_arena, interp,
                   allocate_status, input, output, invoke_status, in_buf,
                   out_buf, out_src, trial_state, eval, trace, beats>>

\* line 98: i < num_tests
LoopTest ==
    /\ pc = "loop_test"
    /\ pc' = IF i < num_tests THEN "write_input" ELSE "free_end"
    /\ UNCHANGED <<tflm, blob_version, model_version, tensor_arena, interp,
                   allocate_status, input, output, i, invoke_status, in_buf,
                   out_buf, out_src, trial_state, eval, log, trace, beats>>

\* lines 100-102: input->data.f[0] = test_values[i]
WriteInput ==
    /\ pc = "write_input"
    /\ in_buf' = test_values[i + 1]
    /\ trial_state' = [trial_state EXCEPT ![i + 1] = "INPUT_WRITTEN"]
    /\ trace' = Append(trace, Ev("write", i + 1))
    /\ log' = Append(log, "I")
    /\ pc' = "invoke"
    /\ UNCHANGED <<tflm, blob_version, model_version, tensor_arena, interp,
                   allocate_status, input, output, i, invoke_status, out_buf,
                   out_src, eval, beats>>

\* line 105: invoke_status = interpreter->Invoke()
Invoke ==
    /\ pc = "invoke"
    /\ \E st \in Statuses :
         /\ invoke_status' = st
         /\ IF st = kTfLiteOk
            THEN /\ \E o \in OutputSamples(in_buf) : out_buf' = o
                 /\ out_src' = i + 1
            ELSE UNCHANGED <<out_buf, out_src>>
    /\ trial_state' = [trial_state EXCEPT ![i + 1] = "INVOKED"]
    /\ trace' = Append(trace, Ev("Invoke", i + 1))
    /\ pc' = "invoke_check"
    /\ UNCHANGED <<tflm, blob_version, model_version, tensor_arena, interp,
                   allocate_status, input, output, i, in_buf, eval, log, beats>>

\* InvokeCheck with break in place of continue
InvokeCheck_Break ==
    /\ pc = "invoke_check"
    /\ IF invoke_status # kTfLiteOk
       THEN /\ log' = Append(log, "E")
            /\ trial_state' = [trial_state EXCEPT ![i + 1] = "INVOKE_FAILED"]
            /\ pc' = "free_end"
       ELSE /\ trial_state' = [trial_state EXCEPT ![i + 1] = "OK"]
            /\ pc' = "evaluate"
            /\ UNCHANGED log
    /\ UNCHANGED i
    /\ UNCHANGED <<tflm, blob_version, model_version, tensor_arena, interp,
                   allocate_status, input, output, invoke_status, in_buf,
                   out_buf, out_src, eval, trace, beats>>

\* InvokeCheck with the continue left out: a failed trial is evaluated too
InvokeCheck_NoContinue ==
    /\ pc = "invoke_check"
    /\ IF invoke_status # kTfLiteOk
       THEN /\ log' = Append(log, "E")
            /\ trial_state' = [trial_state EXCEPT ![i + 1] = "INVOKE_FAILED"]
       ELSE /\ trial_state' = [trial_state EXCEPT ![i + 1] = "OK"]
            /\ UNCHANGED log
    /\ pc' = "evaluate"
    /\ UNCHANGED i
    /\ UNCHANGED <<tflm, blob_version, model_version, tensor_arena, interp,
                   allocate_status, input, output, invoke_status, in_buf,
                   out_buf, out_src, eval, trace, beats>>

\* lines 106-110: on a non-OK status log the error and continue
InvokeCheck ==
    /\ pc = "invoke_check"
    /\ IF invoke_status # kTfLiteOk
       THEN /\ log' = Append(log, "E")
            /\ trial_state' = [trial_state EXCEPT ![i + 1] = "INVOKE_FAILED"]
            /\ i' = i + 1
            /\ pc' = "loop_test"
       ELSE /\ trial_state' = [trial_state EXCEPT ![i + 1] = "OK"]
            /\ pc' = "evaluate"
            /\ UNCHANGED <<log, i>>
    /\ UNCHANGED <<tflm, blob_version, model_version, tensor_arena, interp,
                   allocate_status, input, output, invoke_status, in_buf,
                   out_buf, out_src, eval, trace, beats>>

\* lines 113-123: read the output, compare with test_values[i] + 1.0f, i++
Evaluate ==
    /\ pc = "evaluate"
    /\ LET result == out_buf
           expected == Expected(test_values[i + 1])
           diff == FSub(result, expected)
           warn == LargeDiff(diff)
       IN  /\ eval' = [eval EXCEPT ![i + 1] =
                         [done |-> TRUE, input |-> in_buf, actual |-> result,
                          expected |-> expected, diff |-> diff,
                          src |-> out_src, warned |-> warn]]
           /\ log' = IF warn THEN log \o <<"I", "W">> ELSE Append(log, "I")
    /\ trial_state' = [trial_state EXCEPT ![i + 1] = "EVALUATED"]
    /\ trace' = Append(trace, Ev("read", i + 1))
    /\ i' = i + 1
    /\ pc' = "loop_test"
    /\ UNCHANGED <<tflm, blob_version, model_version, tensor_arena, interp,
                   allocate_status, input, output, invoke_status, in_buf,
                   out_buf, out_src, beats>>

\* lines 125-126: free(tensor_arena) after the loop, then fall into the main loop
FreeEnd ==
    /\ pc = "free_end"
    /\ tensor_arena' = "freed"
    /\ trace' = Append(trace, Ev("free", 0))
    /\ log' = Append(log, "I")
    /\ pc' = "idle"
    /\ UNCHANGED <<tflm, blob_version, model_version, interp, allocate_status,
                   input, output, i, invoke_status, in_buf, out_buf, out_src,
                   trial_state, eval, beats>>

\* Heartbeat with the free of the arena moved into the main loop
Heartbeat_Free ==
    /\ pc = "idle"
    /\ beats < MaxBeats
    /\ beats' = beats + 1
    /\ log' = Append(log, "I")
    /\ tensor_arena' = "freed"
    /\ trace' = trace \o <<Ev("free", 0), Ev("beat", 0)>>
    /\ UNCHANGED <<pc, tflm, blob_version, model_version, interp,
                   allocate_status, input, output, i, invoke_status, in_buf,
                   out_buf, out_src, trial_state, eval>>

\* lines 136-139: while(1) { log free heap; vTaskDelay(10 s) }
Heartbeat ==
    /\ pc = "idle"
    /\ beats < MaxBeats
    /\ beats' = beats + 1
    /\ log' = Append(log, "I")
    /\ trace' = Append(trace, Ev("beat", 0))
    /\ UNCHANGED <<pc, tflm, blob_version, model_version, tensor_arena, interp,
                   allocate_status, input, output, i, invoke_status, in_buf,
                   out_buf, out_src, trial_state, eval>>

Next ==
    \/ Start
    \/ TflmPresent
    \/ TflmAbsent
    \/ GetModel
    \/ VersionCheck
    \/ Malloc
    \/ ArenaCheck
    \/ ConstructInterpreter
    \/ AllocateTensors
    \/ AllocateCheck
    \/ GetTensors
    \/ TensorCheck
    \/ LogShapes
    \/ LoopInit
    \/ LoopTest
    \/ WriteInput
    \/ Invoke
    \/ InvokeCheck
    \/ Evaluate
    \/ FreeEnd
    \/ Heartbeat

Spec == Init /\ [][Next]_vars

TypeOK ==
    /\ tensor_arena \in {"unset", "null", "live", "freed"}
    /\ i \in 0..num_tests
    /\ \A t \in 1..num_tests : trial_state[t] \in TrialStates

\* ------------------------------------------------------ history helpers
Has(op) == \E k \in DOMAIN trace : trace[k].op = op
Count(op) == Cardinality({k \in DOMAIN trace : trace[k].op = op})
CountT(op, t) == Cardinality({k \in DOMAIN trace : trace[k] = Ev(op, t)})
First(op) == CHOOSE k \in DOMAIN trace :
                 trace[k].op = op /\ \A j \in 1..(k - 1) : trace[j].op # op
NumLog(lvl) == Cardinality({k \in DOMAIN log : log[k] = lvl})
TrialOps == {"write", "Invoke", "read"}
NoTrialOps == \A k \in DOMAIN trace : trace[k].op \notin TrialOps
Terminated == pc \in {"returned", "idle"}
VersionMismatch == model_version # NoVersion /\ model_version # TFLITE_SCHEMA_VERSION
MallocSucceeded == tensor_arena \in {"live", "freed"}
AllocFailed == allocate_status # NoStatus /\ allocate_status # kTfLiteOk
NullDescriptor == input = "null" \/ output = "null"
LoopDone == pc \in {"free_end", "idle"} /\ Has("write")

\* ---------------------------------------------------------------- claims

\* C1: a model whose schema version differs from TFLITE_SCHEMA_VERSION makes
\* the run stop at the version check: no malloc, no interpreter, no trial,
\* exactly one error line; an equal version lets the run go on to malloc.
C1_VersionCheckAborts ==
    /\ VersionMismatch =>
         /\ pc \in {"version_check", "returned"}
         /\ tensor_arena = "unset"
         /\ ~Has("malloc")
         /\ ~interp
         /\ ~Has("ctor")
         /\ NoTrialOps
         /\ (pc = "returned" => Has("version_check") /\ NumLog("E") = 1)
         /\ (pc = "version_check" => NumLog("E") = 0)
    /\ (model_version = TFLITE_SCHEMA_VERSION /\ Has("version_check")) =>
         (pc = "malloc" \/ Has("malloc"))

C1_Witness ==
    /\ VersionMismatch
    /\ pc = "returned"
    /\ Has("version_check")
    /\ NumLog("E") = 1

\* C2: when malloc succeeded, free is called exactly once on every exit path
\* (AllocateTensors failure, null descriptor, end of the trial loop), never
\* twice; when malloc failed or was not reached, free is never called.
C2_ArenaReleasedExactlyOnce ==
    /\ Count("free") <= 1
    /\ (MallocSucceeded /\ Terminated) =>
         (Count("free") = 1 /\ tensor_arena = "freed")
    /\ ~MallocSucceeded => Count("free") = 0
    /\ Count("malloc") <= 1

C2_Witness ==
    /\ pc = "idle"
    /\ Count("free") = 1
    /\ \E t \in 1..num_tests : trial_state[t] = "INVOKE_FAILED"
    /\ \E t \in 1..num_tests : eval[t].done /\ eval[t].warned

\* C3: a non-OK AllocateTensors status ends the run: AllocateTensors was called
\* once, there was one malloc and one interpreter, both of tensor_arena_size
\* bytes, nothing was written or invoked, and the arena is freed on return.
C3_AllocateTensorsFailureAborts ==
    AllocFailed =>
        /\ Count("AllocateTensors") = 1
        /\ Count("malloc") = 1
        /\ Count("ctor") = 1
        /\ \A k \in DOMAIN trace :
               trace[k].op \in {"malloc", "ctor"} => trace[k].t = tensor_arena_size
        /\ NoTrialOps
        /\ ~Has("input") /\ ~Has("output")
        /\ pc \in {"allocate_check", "returned"}
        /\ (pc = "returned" =>
               /\ tensor_arena = "freed"
               /\ trace[Len(trace)].op = "free")

C3_Witness ==
    /\ AllocFailed
    /\ pc = "returned"
    /\ tensor_arena = "freed"

\* C4 (state part): trials are attempted in order and at most once each; a
\* failed trial is neither retried nor evaluated; when the loop has ended every
\* trial was written and invoked exactly once and ended EVALUATED or
\* INVOKE_FAILED.
C4_Inv ==
    /\ \A k1 \in DOMAIN trace, k2 \in DOMAIN trace :
           (k1 < k2 /\ trace[k1].op \in TrialOps /\ trace[k2].op \in TrialOps)
               => trace[k1].t <= trace[k2].t
    /\ \A t \in 1..num_tests :
           /\ CountT("write", t) <= 1
           /\ CountT("Invoke", t) <= 1
           /\ CountT("read", t) <= 1
           /\ trial_state[t] = "INVOKE_FAILED" =>
                  (CountT("read", t) = 0 /\ ~eval[t].done)
           /\ trial_state[t] = "EVALUATED" =>
                  (CountT("read", t) = 1 /\ eval[t].done)
           /\ (Has("write") /\ t <= i) =>
                  /\ CountT("write", t) = 1
                  /\ CountT("Invoke", t) = 1
                  /\ trial_state[t] \in {"EVALUATED", "INVOKE_FAILED"}
    /\ LoopDone => i = num_tests
    /\ pc = "invoke" =>
           in_buf = <<F(One), F(5 * One), F(-2 * One), F(10 * One)>>[i + 1]

LoopPcs == {"loop_init", "loop_test", "write_input", "invoke", "invoke_check",
            "evaluate", "free_end"}

\* Number of statements still to run before the loop has been left, at most.
Rank(p, n) ==
    CASE p = "loop_init" -> 5 * num_tests + 3
      [] p = "loop_test" -> 5 * (num_tests - n) + 2
      [] p = "write_input" -> 5 * (num_tests - n) + 1
      [] p = "invoke" -> 5 * (num_tests - n)
      [] p = "invoke_check" -> 5 * (num_tests - n) - 1
      [] p = "evaluate" -> 5 * (num_tests - n) - 2
      [] p = "free_end" -> 1
      [] OTHER -> 0

\* C4 (step part): every statement run inside the loop brings the end of the
\* loop strictly closer (no statement of the loop waits on anything but the
\* program counter), so the loop terminates.
C4_Step ==
    pc \in LoopPcs =>
        /\ pc' \in LoopPcs \cup {"idle"}
        /\ Rank(pc', i') < Rank(pc, i)
        /\ i' \in {i, i + 1}

\* C4: once the trial loop is entered all four trials are attempted once and
\* in order whatever the Invoke statuses are, and the loop then terminates.
C4_AllTrialsAttempted ==
    /\ []C4_Inv
    /\ [][C4_Step]_vars

C4_Witness ==
    /\ pc = "idle"
    /\ trial_state[2] = "INVOKE_FAILED"
    /\ trial_state[3] = "EVALUATED"
    /\ trial_state[4] = "EVALUATED"
    /\ trial_state[1] = "INVOKE_FAILED"

\* |actual - expected| <= 0.1f, in exact arithmetic; false for NaN and infinities
WithinTol(actual, expected) ==
    /\ actual.k = "fin"
    /\ expected.k = "fin"
    /\ Abs(actual.v - expected.v) <= TolF

Warned == {t \in 1..num_tests : eval[t].done /\ eval[t].warned}

\* C5: every evaluated trial compares against input + 1; it logs no warning
\* when |actual - expected| <= tolerance and exactly one warning otherwise, and
\* the classification never changes the control flow.
C5_ToleranceClassification ==
    /\ \A t \in 1..num_tests :
           eval[t].done =>
               /\ eval[t].expected = FAdd(test_values[t], F(One))
               /\ eval[t].warned <=> ~WithinTol(eval[t].actual, eval[t].expected)
    /\ NumLog("W") = Cardinality(Warned)
    /\ pc = "idle" /\ tflm => i = num_tests

\* C6: a null input or output descriptor fails the whole batch: nothing is
\* written, invoked, read or dereferenced, and the run returns after the
\* error line.
C6_NullDescriptorFailsBatch ==
    NullDescriptor =>
        /\ NoTrialOps
        /\ ~Has("deref_input")
        /\ ~Has("deref_output")
        /\ \A t \in 1..num_tests : trial_state[t] = "PENDING"
        /\ pc \in {"tensor_check", "returned"}
        /\ (pc = "returned" => log[Len(log)] = "E")

C6_Witness ==
    /\ input = "ok"
    /\ output = "null"
    /\ pc = "returned"
    /\ log[Len(log)] = "E"

\* C7: a NULL arena ends the run before the interpreter exists; the stages
\* version check, malloc, interpreter + AllocateTensors, trial loop are entered
\* in that order and each only when all earlier ones succeeded.
C7_SetupStagesInOrder ==
    /\ tensor_arena = "null" =>
           /\ ~interp
           /\ ~Has("ctor")
           /\ ~Has("AllocateTensors")
           /\ NoTrialOps
           /\ pc \in {"arena_check", "returned"}
    /\ Has("malloc") =>
           /\ Has("version_check")
           /\ First("version_check") < First("malloc")
           /\ model_version = TFLITE_SCHEMA_VERSION
    /\ Has("ctor") =>
           /\ Has("malloc")
           /\ First("malloc") < First("ctor")
           /\ MallocSucceeded
    /\ Has("AllocateTensors") =>
           /\ Has("ctor")
           /\ First("ctor") < First("AllocateTensors")
    /\ (Has("write") \/ pc \in LoopPcs) =>
           /\ Has("AllocateTensors")
           /\ allocate_status = kTfLiteOk
           /\ input = "ok" /\ output = "ok"
           /\ Has("write") => First("AllocateTensors") < First("write")

C7_Witness ==
    /\ tensor_arena = "null"
    /\ pc = "returned"
    /\ Has("malloc")

\* PENDING -> INPUT_WRITTEN -> INVOKED -> (OK | INVOKE_FAILED), OK -> EVALUATED
TrialTransitions ==
    {<<"PENDING", "INPUT_WRITTEN">>, <<"INPUT_WRITTEN", "INVOKED">>,
     <<"INVOKED", "OK">>, <<"INVOKED", "INVOKE_FAILED">>, <<"OK", "EVALUATED">>}

C8_Step ==
    \A t \in 1..num_tests :
        trial_state'[t] # trial_state[t] =>
            <<trial_state[t], trial_state'[t]>> \in TrialTransitions

C8_Inv ==
    /\ pc \in {"invoke", "invoke_check"} => in_buf = test_values[i + 1]
    /\ \A t \in 1..num_tests :
           /\ CountT("Invoke", t) = 1 =>
                  /\ CountT("write", t) = 1
                  /\ First("write") <= First("Invoke")
                  /\ \E k \in DOMAIN trace :
                         /\ k < Len(trace)
                         /\ trace[k] = Ev("write", t)
                         /\ trace[k + 1] = Ev("Invoke", t)
           /\ CountT("read", t) = 1 =>
                  /\ CountT("Invoke", t) = 1
                  /\ eval[t].done
                  /\ \E k \in DOMAIN trace :
                         /\ k < Len(trace)
                         /\ trace[k] = Ev("Invoke", t)
                         /\ trace[k + 1] = Ev("read", t)
           /\ eval[t].done =>
                  /\ eval[t].src = t
                  /\ eval[t].input = test_values[t]
                  /\ eval[t].actual \in OutputSamples(test_values[t])
                  /\ trial_state[t] = "EVALUATED"
           /\ trial_state[t] = "INVOKE_FAILED" => CountT("read", t) = 0

\* C8: each trial moves PENDING -> INPUT_WRITTEN -> INVOKED -> OK -> EVALUATED
\* or stops at INVOKE_FAILED; the input is written before Invoke, the output
\* is read only after this trial's Invoke returned OK, and the value compared
\* is the one this trial's Invoke produced from this trial's input.
C8_TrialStateMachine ==
    /\ []C8_Inv
    /\ [][C8_Step]_vars

C8_Witness ==
    /\ trial_state[1] = "INVOKE_FAILED"
    /\ trial_state[2] = "EVALUATED"
    /\ eval[2].src = 2

OnlyBeatsAfterBeat ==
    \A k \in DOMAIN trace :
        (k < Len(trace) /\ trace[k].op = "beat") => trace[k + 1].op = "beat"

\* C9 as stated: the heartbeat loop is only ever entered after the last trial
\* and the release of the arena.
C9_HeartbeatOnlyAfterTrials ==
    pc = "idle" =>
        /\ \A t \in 1..num_tests : trial_state[t] \in {"EVALUATED", "INVOKE_FAILED"}
        /\ Has("free")
        /\ tensor_arena = "freed"

C9_Inv ==
    /\ pc = "idle" =>
           IF tflm
           THEN /\ \A t \in 1..num_tests :
                       trial_state[t] \in {"EVALUATED", "INVOKE_FAILED"}
                /\ i = num_tests
                /\ Count("free") = 1
                /\ tensor_arena = "freed"
                /\ \A k \in DOMAIN trace :
                       trace[k].op \in TrialOps => k < First("free")
           ELSE /\ tensor_arena = "unset"
                /\ ~interp
                /\ model_version = NoVersion
                /\ \A k \in DOMAIN trace : trace[k].op = "beat"
                /\ NumLog("E") = 4
    /\ Has("beat") => pc = "idle"
    /\ OnlyBeatsAfterBeat

C9_Step ==
    pc = "idle" =>
        /\ pc' = "idle"
        /\ UNCHANGED <<tflm, blob_version, model_version, tensor_arena, interp,
                       allocate_status, input, output, i, invoke_status,
                       in_buf, out_buf, out_src, trial_state, eval>>
        /\ trace' = Append(trace, Ev("beat", 0))

\* C9 (amended): with the TFLM component the heartbeat loop is entered only
\* after the last trial and the release of the arena; without it the loop is
\* entered right after the four error lines, with no trial phase and no arena.
\* In both builds no trial step follows a heartbeat and every heartbeat step
\* leaves model, arena, interpreter, descriptors and buffers unchanged.
C9_HeartbeatFrame ==
    /\ []C9_Inv
    /\ [][C9_Step]_vars

C9_Witness ==
    /\ tflm
    /\ pc = "idle"
    /\ beats = 2
    /\ tensor_arena = "freed"
    /\ trial_state[num_tests] = "EVALUATED"

ArenaUses == {"write", "Invoke", "read", "AllocateTensors", "deref_input", "deref_output"}

\* C10: nothing touches the arena after free(tensor_arena): no input write, no
\* Invoke, no output read later in the run, although the static interpreter
\* bound to the arena still exists.
C10_NoUseAfterFree ==
    /\ \A k1 \in DOMAIN trace :
           trace[k1].op = "free" =>
               \A k2 \in (k1 + 1)..Len(trace) : trace[k2].op \notin ArenaUses \cup {"free"}
    /\ tensor_arena = "freed" =>
           pc \in {"returned", "idle"}

C10_Witness ==
    /\ tensor_arena = "freed"
    /\ interp
    /\ Has("read")
    /\ Has("beat")
====
